---- MODULE Spec2Model ----
(***************************************************************************)
(* A model of changelist.py, the EDL change list generator: the timecode   *)
(* codec, EDLParser.parse, compare_edls / compute_trim_details,            *)
(* output_change_list and the __main__ pipeline.                           *)
(*                                                                         *)
(* A Python str is modelled as a sequence of one-character strings, so     *)
(* that str.strip, str.split, int(), the two regular expressions and the  *)
(* %02d formatting are computed character by character.                    *)
(***************************************************************************)
EXTENDS Integers, Sequences, FiniteSets, TLC

VARIABLES
    pc,            \* position of the run
    tc,            \* codec: the timecode string handed to tc_to_frames
    fps,           \* codec: the frame rate argument
    frames,        \* codec: the result of tc_to_frames
    tc_out,        \* codec: the result of frames_to_tc
    lines,         \* parser: the lines read from the file (f.readlines())
    i,             \* parser: the loop index, 1-based (Python's i + 1)
    edits,         \* parser: the edits appended so far
    editLines,     \* parser: index of the line each edit was built from
    nameLines,     \* parser: indices of the lines that supplied a clip_name
    old_edits,     \* comparison: the old edit list
    new_edits,     \* comparison: the new edit list
    changes,       \* comparison: the change records
    argc,          \* main: len(sys.argv) - 1
    old_file,      \* main: the old EDL file, [exists, lines]
    new_file,      \* main: the new EDL file, [exists, lines]
    output_file    \* the output file: [opened, content]

vars == <<pc, tc, fps, frames, tc_out, lines, i, edits, editLines, nameLines,
          old_edits, new_edits, changes, argc, old_file, new_file, output_file>>

codecVars   == <<tc, fps, frames, tc_out>>
parserVars  == <<lines, i, edits, editLines, nameLines>>
compareVars == <<old_edits, new_edits, changes>>
mainVars    == <<argc, old_file, new_file>>

(***************************************************************************)
(* Strings                                                                 *)
(***************************************************************************)
Digits == <<"0", "1", "2", "3", "4", "5", "6", "7", "8", "9">>

IsDigit(c) == \E d \in 1..10 : Digits[d] = c

DigitVal(c) == (CHOOSE d \in 1..10 : Digits[d] = c) - 1

IsSpace(c) == c \in {" ", "\t", "\n", "\r"}

\* the decimal digits of a natural number
RECURSIVE Dec(_)
Dec(n) == IF n < 10 THEN <<Digits[n + 1]>>
          ELSE Dec(n \div 10) \o <<Digits[(n % 10) + 1]>>

\* f"{n:02d}": sign included in the width of two
Fmt02d(n) == IF n < 0 THEN <<"-">> \o Dec(-n)
             ELSE IF n < 10 THEN <<"0">> \o Dec(n)
             ELSE Dec(n)

RECURSIVE DigitsVal(_)
DigitsVal(s) == IF s = <<>> THEN 0
                ELSE DigitsVal(SubSeq(s, 1, Len(s) - 1)) * 10 + DigitVal(s[Len(s)])

AllDigits(s) == Len(s) > 0 /\ \A k \in 1..Len(s) : IsDigit(s[k])

\* int(s) raises ValueError unless s is an optionally signed run of digits
IntRaises(s) ==
    IF Len(s) > 0 /\ s[1] \in {"+", "-"}
    THEN ~AllDigits(SubSeq(s, 2, Len(s)))
    ELSE ~AllDigits(s)

IntOf(s) ==
    IF s[1] = "-" THEN 0 - DigitsVal(SubSeq(s, 2, Len(s)))
    ELSE IF s[1] = "+" THEN DigitsVal(SubSeq(s, 2, Len(s)))
    ELSE DigitsVal(s)

\* s.split(sep) for a one-character separator: empty fields are kept
RECURSIVE SplitOn(_, _)
SplitOn(s, sep) ==
    IF \E k \in 1..Len(s) : s[k] = sep
    THEN LET p == CHOOSE k \in 1..Len(s) :
                      s[k] = sep /\ \A j \in 1..(k - 1) : s[j] # sep
         IN  <<SubSeq(s, 1, p - 1)>> \o SplitOn(SubSeq(s, p + 1, Len(s)), sep)
    ELSE <<s>>

\* s.strip()
RECURSIVE LStrip(_)
LStrip(s) == IF s # <<>> /\ IsSpace(s[1]) THEN LStrip(Tail(s)) ELSE s

RECURSIVE RStrip(_)
RStrip(s) == IF s # <<>> /\ IsSpace(s[Len(s)])
             THEN RStrip(SubSeq(s, 1, Len(s) - 1)) ELSE s

Strip(s) == RStrip(LStrip(s))

\* s.split(): runs of whitespace separate the fields, no empty field
RECURSIVE SplitWs(_)
SplitWs(s) ==
    LET t == LStrip(s) IN
    IF t = <<>> THEN <<>>
    ELSE IF \E k \in 1..Len(t) : IsSpace(t[k])
         THEN LET p == CHOOSE k \in 1..Len(t) :
                           IsSpace(t[k]) /\ \A j \in 1..(k - 1) : ~IsSpace(t[j])
              IN  <<SubSeq(t, 1, p - 1)>> \o SplitWs(SubSeq(t, p, Len(t)))
         ELSE <<t>>

StartsWith(s, p) == Len(s) >= Len(p) /\ SubSeq(s, 1, Len(p)) = p

\* s1 + sep + s2 + sep + ...
RECURSIVE Join(_, _)
Join(ss, sep) == IF ss = <<>> THEN <<>>
                 ELSE IF Len(ss) = 1 THEN ss[1]
                 ELSE ss[1] \o sep \o Join(Tail(ss), sep)

(***************************************************************************)
(* Timecode codec                                                          *)
(***************************************************************************)
\* the frame rate set in __main__
FPS == 24

\* tc_to_frames raises ValueError: not four fields, or a field int() rejects
TcRaises(t) ==
    LET parts == SplitOn(t, ":") IN
    Len(parts) # 4 \/ \E k \in 1..Len(parts) : IntRaises(parts[k])

tc_to_frames_noframes(t, r) ==
    LET parts == SplitOn(t, ":")
        h == IntOf(parts[1])
        m == IntOf(parts[2])
        s == IntOf(parts[3])
    IN  ((h * 60 + m) * 60 + s) * r

tc_to_frames(t, r) ==
    LET parts == SplitOn(t, ":")
        h == IntOf(parts[1])
        m == IntOf(parts[2])
        s == IntOf(parts[3])
        f == IntOf(parts[4])
    IN  ((h * 60 + m) * 60 + s) * r + f

frames_to_tc_nomod(n, r) ==
    LET h  == n \div (60 * 60 * r)
        m  == n \div (60 * r)
        n2 == n % (60 * r)
        s  == n2 \div r
        f  == n2 % r
    IN  Join(<<Fmt02d(h), Fmt02d(m), Fmt02d(s), Fmt02d(f)>>, <<":">>)

frames_to_tc(n, r) ==
    LET h  == n \div (60 * 60 * r)
        n1 == n % (60 * 60 * r)
        m  == n1 \div (60 * r)
        n2 == n1 % (60 * r)
        s  == n2 \div r
        f  == n2 % r
    IN  Join(<<Fmt02d(h), Fmt02d(m), Fmt02d(s), Fmt02d(f)>>, <<":">>)

\* no file named: the specifications of the single functions
NoFile == [exists |-> FALSE, lines |-> <<>>, state |-> "unopened"]

\* ---- the codec, applied to bounded inputs ----
MaxHours == 1
FieldVals == {0, 1, 23, 24, 59, 60, 99}
FpsVals == {1, 24, 25}

\* a field written with or without zero padding
FieldStrs(vals) == {Fmt02d(v) : v \in vals} \cup {Dec(v) : v \in vals}

InputTcs ==
    {Join(<<h, m, s, f>>, <<":">>) :
        h \in FieldStrs(0..MaxHours), m \in FieldStrs(FieldVals),
        s \in FieldStrs(FieldVals), f \in FieldStrs(FieldVals)}

ParserIdle  == lines = <<>> /\ i = 0 /\ edits = <<>> /\ editLines = <<>> /\ nameLines = {}
CompareIdle == old_edits = <<>> /\ new_edits = <<>> /\ changes = <<>>
MainIdle    == argc = 0 /\ old_file = NoFile /\ new_file = NoFile
CodecIdle   == tc = <<>> /\ fps = 0 /\ frames = 0 /\ tc_out = <<>>
OutputIdle  == output_file = [opened |-> FALSE, content |-> <<>>]

InitCodec ==
    /\ pc = "codec_start"
    /\ tc \in InputTcs
    /\ fps \in FpsVals
    /\ frames = 0
    /\ tc_out = <<>>
    /\ ParserIdle /\ CompareIdle /\ MainIdle /\ OutputIdle

ToFrames ==
    /\ pc = "codec_start"
    /\ ~TcRaises(tc)
    /\ frames' = tc_to_frames(tc, fps)
    /\ pc' = "codec_frames"
    /\ UNCHANGED <<tc, fps, tc_out, parserVars, compareVars, mainVars, output_file>>

ToTimecode ==
    /\ pc = "codec_frames"
    /\ tc_out' = frames_to_tc(frames, fps)
    /\ pc' = "codec_done"
    /\ UNCHANGED <<tc, fps, frames, parserVars, compareVars, mainVars, output_file>>

NextCodec == ToFrames \/ ToTimecode

SpecCodec == InitCodec /\ [][NextCodec]_vars

\* two-digit numeric fields, frame component below the frame rate
TwoDigitFields(t) ==
    LET parts == SplitOn(t, ":") IN
    /\ Len(parts) = 4
    /\ \A k \in 1..4 : Len(parts[k]) = 2 /\ AllDigits(parts[k])

FrameBelowFps(t, r) == IntOf(SplitOn(t, ":")[4]) < r

MinSecBelow60(t) ==
    LET parts == SplitOn(t, ":") IN IntOf(parts[2]) < 60 /\ IntOf(parts[3]) < 60

\* C5 as stated: every timecode of two-digit fields with f < fps round-trips
\* through tc_to_frames and frames_to_tc.
C5_RoundTripAsStated ==
    (pc = "codec_done" /\ TwoDigitFields(tc) /\ FrameBelowFps(tc, fps))
        => tc_out = tc

\* C5 amended: a timecode of two-digit fields with minutes < 60, seconds < 60
\* and f < fps round-trips, and tc_to_frames is ((h*60+m)*60+s)*fps + f.
C5_RoundTrip ==
    /\ (pc = "codec_done" /\ TwoDigitFields(tc) /\ FrameBelowFps(tc, fps)
            /\ MinSecBelow60(tc))
          => tc_out = tc
    /\ pc \in {"codec_frames", "codec_done"} =>
          LET p == SplitOn(tc, ":") IN
          frames = ((DigitsVal(p[1]) * 60 + DigitsVal(p[2])) * 60 + DigitsVal(p[3])) * fps
                      + DigitsVal(p[4])

C5_Witness ==
    /\ pc = "codec_done"
    /\ TwoDigitFields(tc) /\ FrameBelowFps(tc, fps) /\ MinSecBelow60(tc)
    /\ fps = 24
    /\ tc = <<"0", "1", ":", "5", "9", ":", "5", "9", ":", "2", "3">>
    /\ tc_out = tc

(***************************************************************************)
(* EDLParser.parse                                                         *)
(***************************************************************************)
Edit(event_num, reel, source_in, source_out, record_in, record_out, clip_name) ==
    [event_num |-> event_num, reel |-> reel,
     source_in |-> source_in, source_out |-> source_out,
     record_in |-> record_in, record_out |-> record_out,
     clip_name |-> clip_name]

\* re.match(r'^\d{3,}', line), with one digit in place of three
IsEventLineOneDigit(line) == Len(line) >= 1 /\ IsDigit(line[1])

\* re.match(r'^\d{3,}', line)
IsEventLine(line) ==
    Len(line) >= 3 /\ \A k \in 1..3 : IsDigit(line[k])

\* the literal part of r'\* FROM CLIP NAME: (.+)'
ClipNameMarker ==
    <<"*", " ", "F", "R", "O", "M", " ", "C", "L", "I", "P", " ",
      "N", "A", "M", "E", ":", " ">>

\* the positions where re.search can match: the marker, then at least one
\* character for (.+)
ClipNamePositions(s) ==
    {p \in 1..Len(s) :
        /\ p + Len(ClipNameMarker) <= Len(s)
        /\ SubSeq(s, p, p + Len(ClipNameMarker) - 1) = ClipNameMarker}

\* re.search(...) is not None
ClipNameMatches(s) == ClipNamePositions(s) # {}

\* clip_name_match.group(1): leftmost match, (.+) runs to the end of the line
ClipNameGroup(s) ==
    LET p == CHOOSE q \in ClipNamePositions(s) :
                 \A r \in ClipNamePositions(s) : q <= r
    IN  SubSeq(s, p + Len(ClipNameMarker), Len(s))

\* lines 88-93: the clip name looked up on the line after lines[k]
LookaheadClipName(ls, k) ==
    IF k + 1 <= Len(ls) /\ ClipNameMatches(Strip(ls[k + 1]))
    THEN ClipNameGroup(Strip(ls[k + 1]))
    ELSE <<>>

\* lines[k] is an event line with at least 8 fields
AcceptsLine(ls, k) ==
    IsEventLine(Strip(ls[k])) /\ Len(SplitWs(Strip(ls[k]))) >= 8

\* lines 79-95: the Edit built from lines[k]
BuildEdit(ls, k) ==
    LET parts == SplitWs(Strip(ls[k])) IN
    Edit(parts[1], parts[2], parts[5], parts[6], parts[7], parts[8],
         LookaheadClipName(ls, k))

\* i += 1, but past the line a clip name was taken from
ScanNextPastClipName(ls, k) ==
    IF AcceptsLine(ls, k) /\ k + 1 <= Len(ls) /\ ClipNameMatches(Strip(ls[k + 1]))
    THEN k + 2 ELSE k + 1

\* i += 1 at the end of every iteration
ScanNext(ls, k) == k + 1

\* the whole of parse as a function of the lines read
RECURSIVE ParseFrom(_, _, _)
ParseFrom(ls, k, acc) ==
    IF k > Len(ls) THEN acc
    ELSE ParseFrom(ls, ScanNext(ls, k),
                   IF AcceptsLine(ls, k) THEN Append(acc, BuildEdit(ls, k)) ELSE acc)

parse(ls) == ParseFrom(ls, 1, <<>>)

\* ---- the parser, applied to bounded files ----
MaxLines == 3

W(words) == Join(words, <<" ">>)

\* "001 A V C a b c d\n"
LineEvent ==
    W(<< <<"0", "0", "1">>, <<"A">>, <<"V">>, <<"C">>,
         <<"a">>, <<"b">>, <<"c">>, <<"d">> >>) \o <<"\n">>
\* "  0002\tBB V C e f g h i j \n": padded, a tab, trailing fields
LinePadded ==
    <<" ", " ", "0", "0", "0", "2", "\t">> \o
    W(<< <<"B", "B">>, <<"V">>, <<"C">>, <<"e">>, <<"f">>, <<"g">>, <<"h">>,
         <<"i">>, <<"j">> >>) \o <<" ", "\n">>
\* "003 A V C a b c\n": seven fields
LineShort ==
    W(<< <<"0", "0", "3">>, <<"A">>, <<"V">>, <<"C">>,
         <<"a">>, <<"b">>, <<"c">> >>) \o <<"\n">>
\* "04 A V C a b c d\n": a two-digit event number
LineTwoDigits ==
    W(<< <<"0", "4">>, <<"A">>, <<"V">>, <<"C">>,
         <<"a">>, <<"b">>, <<"c">>, <<"d">> >>) \o <<"\n">>
\* "* FROM CLIP NAME: x y\n"
LineClipName == ClipNameMarker \o <<"x", " ", "y", "\n">>
\* "005 A V C a b c d * FROM CLIP NAME: z\n": an event line carrying the marker
LineEventWithMarker ==
    W(<< <<"0", "0", "5">>, <<"A">>, <<"V">>, <<"C">>,
         <<"a">>, <<"b">>, <<"c">>, <<"d">> >>) \o <<" ">> \o ClipNameMarker
      \o <<"z", "\n">>
\* "TITLE: t\n"
LineTitle == <<"T", "I", "T", "L", "E", ":", " ", "t", "\n">>

LinePool == {LineEvent, LinePadded, LineShort, LineTwoDigits, LineClipName,
             LineEventWithMarker, LineTitle}

SeqsUpTo(S, n) == UNION {[1..k -> S] : k \in 0..n}

InitParser ==
    /\ pc = "parse_loop"
    /\ lines \in SeqsUpTo(LinePool, MaxLines)
    /\ i = 1
    /\ edits = <<>>
    /\ editLines = <<>>
    /\ nameLines = {}
    /\ CodecIdle /\ CompareIdle /\ MainIdle /\ OutputIdle

\* an iteration on an event line with at least 8 fields
ParseEventLine ==
    /\ pc = "parse_loop"
    /\ i <= Len(lines)
    /\ AcceptsLine(lines, i)
    /\ edits' = Append(edits, BuildEdit(lines, i))
    /\ editLines' = Append(editLines, i)
    /\ nameLines' = IF i + 1 <= Len(lines) /\ ClipNameMatches(Strip(lines[i + 1]))
                    THEN nameLines \cup {i + 1} ELSE nameLines
    /\ i' = ScanNext(lines, i)
    /\ UNCHANGED <<pc, lines, codecVars, compareVars, mainVars, output_file>>

\* an iteration on an event line with fewer than 8 fields
ParseShortLine ==
    /\ pc = "parse_loop"
    /\ i <= Len(lines)
    /\ IsEventLine(Strip(lines[i]))
    /\ Len(SplitWs(Strip(lines[i]))) < 8
    /\ i' = ScanNext(lines, i)
    /\ UNCHANGED <<pc, lines, edits, editLines, nameLines,
                   codecVars, compareVars, mainVars, output_file>>

\* an iteration on any other line
ParseOtherLine ==
    /\ pc = "parse_loop"
    /\ i <= Len(lines)
    /\ ~IsEventLine(Strip(lines[i]))
    /\ i' = ScanNext(lines, i)
    /\ UNCHANGED <<pc, lines, edits, editLines, nameLines,
                   codecVars, compareVars, mainVars, output_file>>

ParseReturn ==
    /\ pc = "parse_loop"
    /\ i > Len(lines)
    /\ pc' = "parse_done"
    /\ UNCHANGED <<parserVars, codecVars, compareVars, mainVars, output_file>>

NextParser == ParseEventLine \/ ParseShortLine \/ ParseOtherLine \/ ParseReturn

SpecParser == InitParser /\ [][NextParser]_vars

\* the six positional fields of an edit
SixFields(e) == <<e.event_num, e.reel, e.source_in, e.source_out,
                  e.record_in, e.record_out>>

FieldsOfLine(l) ==
    LET parts == SplitWs(Strip(l)) IN
    <<parts[1], parts[2], parts[5], parts[6], parts[7], parts[8]>>

StartsWithDigits(l, n) ==
    Len(Strip(l)) >= n /\ \A k \in 1..n : IsDigit(Strip(l)[k])

OneDigitEvent(l)   == StartsWithDigits(l, 1) /\ Len(SplitWs(Strip(l))) >= 8
ThreeDigitEvent(l) == StartsWithDigits(l, 3) /\ Len(SplitWs(Strip(l))) >= 8

\* C7 as stated: parse returns, in file order, one Edit for each line that
\* starts with one or more digits and has at least 8 fields, and no other.
C7_ParseAsStated ==
    pc = "parse_done" =>
        LET sel == SelectSeq(lines, OneDigitEvent) IN
        [k \in 1..Len(edits) |-> SixFields(edits[k])]
            = [k \in 1..Len(sel) |-> FieldsOfLine(sel[k])]

\* C7 amended: parse returns, in file order, one Edit for each line whose
\* stripped text starts with three or more digits and has at least 8 fields
\* (fields 0,1,4,5,6,7), and no Edit for any other line; a short event line
\* is skipped and the scan goes on.
C7_Parse ==
    pc = "parse_done" =>
        LET sel == SelectSeq(lines, ThreeDigitEvent) IN
        [k \in 1..Len(edits) |-> SixFields(edits[k])]
            = [k \in 1..Len(sel) |-> FieldsOfLine(sel[k])]

\* a short event line, then a padded event line with trailing fields
C7_Witness ==
    /\ pc = "parse_done"
    /\ lines = <<LineShort, LinePadded, LineTitle>>
    /\ Len(edits) = 1
    /\ edits[1].reel = <<"B", "B">>
    /\ edits[1].record_out = <<"h">>

RangeOf(s) == {s[k] : k \in 1..Len(s)}

\* C8 as stated: no line both supplies a clip name and becomes an Edit.
C8_NoDoubleUseAsStated == nameLines \cap RangeOf(editLines) = {}

\* C8 amended: the lookahead reads only the line after an accepted event
\* line and does not advance the scan (every event line before the scan
\* position has become an Edit), and a line whose stripped text begins with
\* the clip-name marker is never an Edit; a line used both ways is an event
\* line that carries the marker after its digits.
C8_Lookahead ==
    /\ \A j \in nameLines : j - 1 \in RangeOf(editLines)
    /\ \A j \in 1..Len(lines) :
          (j < i /\ ThreeDigitEvent(lines[j])) => j \in RangeOf(editLines)
    /\ \A j \in RangeOf(editLines) : ~StartsWith(Strip(lines[j]), ClipNameMarker)
    /\ \A j \in nameLines \cap RangeOf(editLines) :
          /\ StartsWithDigits(lines[j], 3)
          /\ ClipNameMatches(Strip(lines[j]))
    /\ \A k \in 1..Len(edits) :
          edits[k].clip_name # <<>> => (editLines[k] + 1) \in nameLines

\* an event line, its clip-name line, and an event line after it
C8_Witness ==
    /\ pc = "parse_done"
    /\ lines = <<LineEvent, LineClipName, LineEvent>>
    /\ nameLines = {2}
    /\ editLines = <<1, 3>>
    /\ edits[1].clip_name = <<"x", " ", "y">>

(***************************************************************************)
(* compare_edls and compute_trim_details                                   *)
(***************************************************************************)
\* "Clip added"
TxtClipAdded ==
    <<"C", "l", "i", "p", " ", "a", "d", "d", "e", "d">>
\* "Clip added ("
TxtClipAddedOpen ==
    <<"C", "l", "i", "p", " ", "a", "d", "d", "e", "d", " ", "(">>
\* "No time difference. Shifted within itself. "
TxtNoTimeDifference ==
    <<"N", "o", " ", "t", "i", "m", "e", " ", "d", "i", "f", "f", "e", "r",
      "e", "n", "c", "e", ".", " ", "S", "h", "i", "f", "t", "e", "d", " ",
      "w", "i", "t", "h", "i", "n", " ", "i", "t", "s", "e", "l", "f", ".",
      " ">>
\* "Time difference "
TxtTimeDifference ==
    <<"T", "i", "m", "e", " ", "d", "i", "f", "f", "e", "r", "e", "n", "c",
      "e", " ">>
\* " frames  ["
TxtFramesBracket ==
    <<" ", "f", "r", "a", "m", "e", "s", " ", " ", "[">>
\* " frames]."
TxtFramesClose ==
    <<" ", "f", "r", "a", "m", "e", "s", "]", ".">>
\* " HEAD "
TxtHead ==
    <<" ", "H", "E", "A", "D", " ">>
\* " TAIL "
TxtTail ==
    <<" ", "T", "A", "I", "L", " ">>
\* "extended"
TxtExtended ==
    <<"e", "x", "t", "e", "n", "d", "e", "d">>
\* "trimmed"
TxtTrimmed ==
    <<"t", "r", "i", "m", "m", "e", "d">>
\* " from "
TxtFrom ==
    <<" ", "f", "r", "o", "m", " ">>
\* " to "
TxtTo ==
    <<" ", "t", "o", " ">>
\* " Old length: "
TxtOldLength ==
    <<" ", "O", "l", "d", " ", "l", "e", "n", "g", "t", "h", ":", " ">>
\* " frames] - New length: "
TxtNewLength ==
    <<" ", "f", "r", "a", "m", "e", "s", "]", " ", "-", " ", "N", "e", "w",
      " ", "l", "e", "n", "g", "t", "h", ":", " ">>
\* " frames]"
TxtFramesEnd ==
    <<" ", "f", "r", "a", "m", "e", "s", "]">>
\* " second"
TxtSecond ==
    <<" ", "s", "e", "c", "o", "n", "d">>
\* " frame"
TxtFrame ==
    <<" ", "f", "r", "a", "m", "e">>

\* an Optional[Edit]: <<>> for None, <<e>> for an edit
Absent == <<>>
Present(e) == <<e>>

Max(a, b) == IF a >= b THEN a ELSE b
Min(a, b) == IF a <= b THEN a ELSE b

\* str(n) for an integer
Str(n) == IF n < 0 THEN <<"-">> \o Dec(-n) ELSE Dec(n)

\* compute_trim_details raises when one of its eight timecodes does not parse
TrimRaises(o, n) ==
    \E t \in {o.source_in, o.source_out, n.source_in, n.source_out,
              o.record_in, o.record_out, n.record_in, n.record_out} : TcRaises(t)

\* time_diff taken from the source durations instead of the record durations
trim_lengths_from_source(o, n, r) ==
    LET old_length == tc_to_frames(o.source_out, r) - tc_to_frames(o.source_in, r)
        new_length == tc_to_frames(n.source_out, r) - tc_to_frames(n.source_in, r)
    IN  [time_diff_frames  |-> new_length - old_length,
         old_length_frames |-> old_length,
         new_length_frames |-> new_length,
         old_source_in  |-> o.source_in,
         new_source_in  |-> n.source_in,
         old_source_out |-> o.source_out,
         new_source_out |-> n.source_out]

\* lines 137-157: the fields every detail mapping carries
trim_lengths(o, n, r) ==
    LET old_length == tc_to_frames(o.record_out, r) - tc_to_frames(o.record_in, r)
        new_length == tc_to_frames(n.record_out, r) - tc_to_frames(n.record_in, r)
    IN  [time_diff_frames  |-> new_length - old_length,
         old_length_frames |-> old_length,
         new_length_frames |-> new_length,
         old_source_in  |-> o.source_in,
         new_source_in  |-> n.source_in,
         old_source_out |-> o.source_out,
         new_source_out |-> n.source_out]

\* the head change with "extended" and "trimmed" exchanged
head_details_swapped(o, n, r) ==
    LET head_diff == tc_to_frames(n.source_in, r) - tc_to_frames(o.source_in, r) IN
    IF head_diff > 0
    THEN [head_change |-> "extended", head_from |-> o.source_in, head_to |-> n.source_in]
    ELSE IF head_diff < 0
    THEN [head_change |-> "trimmed", head_from |-> o.source_in, head_to |-> n.source_in]
    ELSE <<>>

\* lines 159-168: the head change, an empty mapping when there is none
head_details(o, n, r) ==
    LET head_diff == tc_to_frames(n.source_in, r) - tc_to_frames(o.source_in, r) IN
    IF head_diff < 0
    THEN [head_change |-> "extended", head_from |-> o.source_in, head_to |-> n.source_in]
    ELSE IF head_diff > 0
    THEN [head_change |-> "trimmed", head_from |-> o.source_in, head_to |-> n.source_in]
    ELSE <<>>

\* lines 170-179: the tail change, an empty mapping when there is none
tail_details(o, n, r) ==
    LET tail_diff == tc_to_frames(n.source_out, r) - tc_to_frames(o.source_out, r) IN
    IF tail_diff > 0
    THEN [tail_change |-> "extended", tail_from |-> o.source_out, tail_to |-> n.source_out]
    ELSE IF tail_diff < 0
    THEN [tail_change |-> "trimmed", tail_from |-> o.source_out, tail_to |-> n.source_out]
    ELSE <<>>

\* the union of two mappings
Merge(d1, d2) ==
    [k \in (DOMAIN d1) \cup (DOMAIN d2) |-> IF k \in DOMAIN d1 THEN d1[k] ELSE d2[k]]

compute_trim_details(o, n, r) ==
    Merge(Merge(trim_lengths(o, n, r), head_details(o, n, r)), tail_details(o, n, r))

ChangeRecord(type, old, new, details) ==
    [type |-> type, old |-> old, new |-> new, details |-> details]

\* the classification with the source timecodes tested before the reel
compare_record_source_first(old, new, r) ==
    IF old = Absent /\ new # Absent
    THEN ChangeRecord("NEW", Absent, new, [description |-> TxtClipAdded])
    ELSE IF old # Absent /\ new = Absent
    THEN ChangeRecord("DELETED", old, Absent, <<>>)
    ELSE IF old[1].source_in = new[1].source_in /\ old[1].source_out = new[1].source_out
    THEN ChangeRecord("UNCHANGED", old, new, <<>>)
    ELSE IF old[1].reel # new[1].reel
    THEN ChangeRecord("NEW", old, new, [description |-> TxtClipAdded])
    ELSE ChangeRecord("CHANGED", old, new, compute_trim_details(old[1], new[1], r))

\* lines 109-125: the record for one index; not both of old and new absent
compare_record(old, new, r) ==
    IF old = Absent /\ new # Absent
    THEN ChangeRecord("NEW", Absent, new, [description |-> TxtClipAdded])
    ELSE IF old # Absent /\ new = Absent
    THEN ChangeRecord("DELETED", old, Absent, <<>>)
    ELSE IF old[1].reel # new[1].reel
    THEN ChangeRecord("NEW", old, new, [description |-> TxtClipAdded])
    ELSE IF old[1].source_in = new[1].source_in /\ old[1].source_out = new[1].source_out
    THEN ChangeRecord("UNCHANGED", old, new, <<>>)
    ELSE ChangeRecord("CHANGED", old, new, compute_trim_details(old[1], new[1], r))

\* lines 106-107: the element at 1-based index k, or None
ElementAt(es, k) == IF k <= Len(es) THEN Present(es[k]) ELSE Absent

\* the index reaches compute_trim_details
IsChangedAt(olds, news, k) ==
    /\ k <= Len(olds) /\ k <= Len(news)
    /\ olds[k].reel = news[k].reel
    /\ ~(olds[k].source_in = news[k].source_in /\ olds[k].source_out = news[k].source_out)

\* the records only for the indices both lists have
compare_length_min(olds, news) == Min(Len(olds), Len(news))

\* line 103: max_len
compare_length(olds, news) == Max(Len(olds), Len(news))

\* compare_edls raises ValueError
CompareRaises(olds, news) ==
    \E k \in 1..compare_length(olds, news) :
        IsChangedAt(olds, news, k) /\ TrimRaises(olds[k], news[k])

compare_edls(olds, news, r) ==
    [k \in 1..compare_length(olds, news) |->
        compare_record(ElementAt(olds, k), ElementAt(news, k), r)]

(***************************************************************************)
(* output_change_list                                                      *)
(***************************************************************************)
Plural(n) == IF n # 1 THEN <<"s">> ELSE <<>>

frames_to_description(n, r) ==
    LET seconds == n \div r
        remaining_frames == n % r
    IN  IF seconds = 0
        THEN Str(remaining_frames) \o TxtFrame \o Plural(remaining_frames)
        ELSE Str(seconds) \o TxtSecond \o Plural(seconds) \o <<" ">>
               \o Str(remaining_frames) \o TxtFrame \o Plural(remaining_frames)

\* details.get(key, default)
Get(d, key, default) == IF key \in DOMAIN d THEN d[key] ELSE default

\* old_e if old_e else new_e
DisplayEditOldFirst(rec) == IF rec.old # Absent THEN rec.old[1] ELSE rec.new[1]

\* line 203: new_e if new_e else old_e
DisplayEdit(rec) == IF rec.new # Absent THEN rec.new[1] ELSE rec.old[1]

\* lines 214-243: the description of a CHANGED record
changed_description(rec, r) ==
    LET details    == rec.details
        time_diff  == Get(details, "time_diff_frames", 0)
        old_length == Get(details, "old_length_frames", 0)
        new_length == Get(details, "new_length_frames", 0)
        part_a == IF time_diff = 0 THEN TxtNoTimeDifference
                  ELSE TxtTimeDifference \o Str(time_diff) \o TxtFramesBracket
                         \o Str(time_diff) \o TxtFramesClose
        part_b == IF "head_change" \in DOMAIN details
                  THEN TxtHead
                         \o (IF details.head_change = "extended"
                             THEN TxtExtended ELSE TxtTrimmed)
                         \o TxtFrom \o details.head_from \o TxtTo \o details.head_to
                         \o <<".">>
                  ELSE <<>>
        part_c == IF "tail_change" \in DOMAIN details
                  THEN TxtTail
                         \o (IF details.tail_change = "extended"
                             THEN TxtExtended ELSE TxtTrimmed)
                         \o TxtFrom \o details.tail_from \o TxtTo \o details.tail_to
                         \o <<".">>
                  ELSE <<>>
        part_d == IF time_diff # 0
                  THEN TxtOldLength \o frames_to_description(old_length, r)
                         \o <<" ", "[">> \o Str(old_length) \o TxtNewLength
                         \o frames_to_description(new_length, r)
                         \o <<" ", "[">> \o Str(new_length) \o TxtFramesEnd
                  ELSE <<>>
    IN  part_a \o part_b \o part_c \o part_d
          \o <<" ", "(">> \o DisplayEdit(rec).clip_name \o <<")">>

\* one written line: its six tab-separated fields
OutputLine(label, record_tc, colour, description) ==
    [label |-> label, record_tc |-> record_tc, tc |-> "TC", colour |-> colour,
     description |-> description, last |-> "1"]

\* lines 203-244: the line written for a NEW or CHANGED record
output_line(rec, r) ==
    IF rec.type = "NEW"
    THEN OutputLine("New", DisplayEdit(rec).record_in, "magenta",
                    TxtClipAddedOpen \o DisplayEdit(rec).clip_name \o <<")">>)
    ELSE OutputLine("Changed", DisplayEdit(rec).record_in, "yellow",
                    changed_description(rec, r))

\* lines 196-200: the records the loop passes over
is_skipped(rec) == rec.type = "UNCHANGED" \/ rec.type = "DELETED"

\* lines 195-244: the lines the loop writes, in order
RECURSIVE output_lines(_, _)
output_lines(chs, r) ==
    IF chs = <<>> THEN <<>>
    ELSE IF is_skipped(Head(chs)) THEN output_lines(Tail(chs), r)
    ELSE IF Head(chs).type \in {"NEW", "CHANGED"}
         THEN <<output_line(Head(chs), r)>> \o output_lines(Tail(chs), r)
         ELSE output_lines(Tail(chs), r)

\* the output file before the run: not opened, holding earlier content
PriorContent == <<"prior">>
OutputUntouched == [opened |-> FALSE, content |-> PriorContent]

(***************************************************************************)
(* The steps of a run, shared by the specifications below                  *)
(***************************************************************************)
\* changes = compare_edls(old_edits, new_edits, fps)
Compare ==
    /\ pc = "compare"
    /\ ~CompareRaises(old_edits, new_edits)
    /\ changes' = compare_edls(old_edits, new_edits, FPS)
    /\ pc' = "render"
    /\ UNCHANGED <<old_edits, new_edits, codecVars, parserVars, mainVars, output_file>>

\* compare_edls raises ValueError on a timecode: the run ends
CompareRaise ==
    /\ pc = "compare"
    /\ CompareRaises(old_edits, new_edits)
    /\ pc' = "aborted"
    /\ UNCHANGED <<compareVars, codecVars, parserVars, mainVars, output_file>>

\* output_change_list(changes, output_file, fps): open for writing, write, close
WriteChangeList ==
    /\ pc = "render"
    /\ output_file' = [opened |-> TRUE, content |-> output_lines(changes, FPS)]
    /\ pc' = "done"
    /\ UNCHANGED <<compareVars, codecVars, parserVars, mainVars>>

(***************************************************************************)
(* compare_edls applied to bounded edit lists                              *)
(***************************************************************************)
MaxEdits == 2

Tc(h, m, s, f) == Join(<<Fmt02d(h), Fmt02d(m), Fmt02d(s), Fmt02d(f)>>, <<":">>)

Ev1 == <<"0", "0", "1">>
Ev2 == <<"0", "0", "2">>

\* the old edit of the pure-trim example
EditBase == Edit(Ev1, <<"A">>, Tc(1, 0, 0, 0), Tc(1, 0, 10, 0),
                 Tc(1, 0, 0, 0), Tc(1, 0, 10, 0), <<"c">>)
\* its source_in two seconds later
EditHeadTrim == Edit(Ev1, <<"A">>, Tc(1, 0, 2, 0), Tc(1, 0, 10, 0),
                     Tc(1, 0, 0, 0), Tc(1, 0, 10, 0), <<"c">>)
\* its source_in one frame later, another event number and clip name
EditHeadFrame == Edit(Ev2, <<"A">>, Tc(1, 0, 0, 1), Tc(1, 0, 10, 0),
                      Tc(1, 0, 0, 0), Tc(1, 0, 10, 0), <<>>)
\* its source_out and record_out two seconds earlier
EditTailTrim == Edit(Ev1, <<"A">>, Tc(1, 0, 0, 0), Tc(1, 0, 8, 0),
                     Tc(1, 0, 0, 0), Tc(1, 0, 8, 0), <<"c">>)
\* another reel with the same source timecodes
EditOtherReel == Edit(Ev1, <<"B">>, Tc(1, 0, 0, 0), Tc(1, 0, 10, 0),
                      Tc(1, 0, 0, 0), Tc(1, 0, 10, 0), <<"d">>)
\* the same reel and source timecodes at another place of the timeline
EditMoved == Edit(Ev2, <<"A">>, Tc(1, 0, 0, 0), Tc(1, 0, 10, 0),
                  Tc(1, 0, 5, 0), Tc(1, 0, 15, 1), <<"k">>)
\* source_in 00:59:60:00: the frame count of 01:00:00:00, another string
EditSixtySeconds == Edit(Ev1, <<"A">>, Tc(0, 59, 60, 0), Tc(1, 0, 10, 0),
                         Tc(1, 0, 0, 0), Tc(1, 0, 10, 0), <<"c">>)
\* source_in 01:00:0x:00, which int() rejects
EditBadTimecode ==
    Edit(Ev1, <<"A">>, <<"0", "1", ":", "0", "0", ":", "0", "x", ":", "0", "0">>,
         Tc(1, 0, 10, 0), Tc(1, 0, 0, 0), Tc(1, 0, 10, 0), <<"c">>)

EditPool == {EditBase, EditHeadTrim, EditHeadFrame, EditTailTrim, EditOtherReel,
             EditMoved, EditSixtySeconds, EditBadTimecode}

\* the old list is drawn from the edits the others are variations of
OldEditPool == {EditBase, EditHeadTrim, EditTailTrim}

InitCompare ==
    /\ pc = "compare"
    /\ old_edits \in SeqsUpTo(OldEditPool, MaxEdits)
    /\ new_edits \in SeqsUpTo(EditPool, MaxEdits)
    /\ changes = <<>>
    /\ output_file = OutputUntouched
    /\ CodecIdle /\ ParserIdle /\ MainIdle

NextCompare == Compare \/ CompareRaise \/ WriteChangeList

SpecCompare == InitCompare /\ [][NextCompare]_vars

Compared == pc \in {"render", "done"}

BothAt(k) == k <= Len(old_edits) /\ k <= Len(new_edits)

SameSource(o, n) == o.source_in = n.source_in /\ o.source_out = n.source_out

\* what decides the type at index k: which sides exist, whether the reels
\* are equal, whether the source timecodes are equal
TypeKey(k) ==
    <<k <= Len(old_edits), k <= Len(new_edits),
      BothAt(k) /\ old_edits[k].reel = new_edits[k].reel,
      BothAt(k) /\ SameSource(old_edits[k], new_edits[k])>>

\* C1: record i is classified by the first matching rule: reels differ ->
\* NEW with {description: "Clip added"} and both edits; else equal source_in
\* and source_out -> UNCHANGED, empty detail; else CHANGED with the trim
\* details; only new -> NEW without old; only old -> DELETED, empty detail.
\* The other fields of the edits do not influence the type.
C1_Classification ==
    Compared =>
      /\ \A k \in 1..Len(changes) :
           LET rec == changes[k] IN
           /\ rec.type \in {"UNCHANGED", "CHANGED", "NEW", "DELETED"}
           /\ IF BothAt(k)
              THEN LET o == old_edits[k]
                       n == new_edits[k]
                   IN  /\ rec.old = <<o>> /\ rec.new = <<n>>
                       /\ IF o.reel # n.reel
                          THEN /\ rec.type = "NEW"
                               /\ DOMAIN rec.details = {"description"}
                               /\ rec.details.description = TxtClipAdded
                          ELSE IF SameSource(o, n)
                          THEN rec.type = "UNCHANGED" /\ DOMAIN rec.details = {}
                          ELSE /\ rec.type = "CHANGED"
                               /\ "time_diff_frames" \in DOMAIN rec.details
              ELSE IF k <= Len(new_edits)
              THEN /\ rec.type = "NEW" /\ rec.old = Absent
                   /\ rec.new = <<new_edits[k]>>
                   /\ rec.details.description = TxtClipAdded
              ELSE /\ rec.type = "DELETED" /\ rec.new = Absent
                   /\ rec.old = <<old_edits[k]>>
                   /\ DOMAIN rec.details = {}
      /\ \A k, l \in 1..Len(changes) :
           TypeKey(k) = TypeKey(l) => changes[k].type = changes[l].type

\* a reel swap with the same source timecodes, next to an unchanged edit
\* whose record timecodes, event number and clip name all differ
C1_Witness ==
    /\ Compared
    /\ old_edits = <<EditBase, EditBase>>
    /\ new_edits = <<EditOtherReel, EditMoved>>
    /\ changes[1].type = "NEW" /\ changes[1].old = <<EditBase>>
    /\ changes[2].type = "UNCHANGED"

IsReported(rec) == rec.type \in {"NEW", "CHANGED"}

\* the line written for record k, when it is a reported one
LineOf(k) == output_file.content[Len(SelectSeq(SubSeq(changes, 1, k), IsReported))]

SourceParses(e) == ~TcRaises(e.source_in) /\ ~TcRaises(e.source_out)

\* same reel, source_out, record_in and record_out; new.source_in later
PureHeadTrimAt(k) ==
    /\ BothAt(k)
    /\ old_edits[k].reel = new_edits[k].reel
    /\ old_edits[k].source_out = new_edits[k].source_out
    /\ old_edits[k].record_in = new_edits[k].record_in
    /\ old_edits[k].record_out = new_edits[k].record_out
    /\ SourceParses(old_edits[k]) /\ SourceParses(new_edits[k])
    /\ tc_to_frames(new_edits[k].source_in, FPS)
          > tc_to_frames(old_edits[k].source_in, FPS)

HeadTrimFrames(k) ==
    tc_to_frames(new_edits[k].source_in, FPS) - tc_to_frames(old_edits[k].source_in, FPS)

\* the example of the specification: 01:00:00:00 -> 01:00:02:00
IsTrimExample(k) ==
    /\ old_edits[k].source_in = Tc(1, 0, 0, 0)
    /\ new_edits[k].source_in = Tc(1, 0, 2, 0)

\* "Time difference -48 frames  [-48 frames]. HEAD trimmed from 01:00:00:00
\* to 01:00:02:00."
TrimExampleAsStated ==
    TxtTimeDifference \o <<"-", "4", "8">> \o TxtFramesBracket \o <<"-", "4", "8">>
      \o TxtFramesClose \o TxtHead \o TxtTrimmed \o TxtFrom \o Tc(1, 0, 0, 0)
      \o TxtTo \o Tc(1, 0, 2, 0) \o <<".">>

\* C3 as stated: a pure head trim of d frames is CHANGED with head_change
\* "trimmed" and time_diff_frames = -d, rendered "Time difference -48 ...".
C3_PureTrimAsStated ==
    Compared =>
      \A k \in 1..Len(changes) : PureHeadTrimAt(k) =>
        /\ changes[k].type = "CHANGED"
        /\ changes[k].details.head_change = "trimmed"
        /\ changes[k].details.time_diff_frames = 0 - HeadTrimFrames(k)
        /\ (pc = "done" /\ IsTrimExample(k)) =>
              StartsWith(LineOf(k).description, TrimExampleAsStated)

\* C3 amended: a pure head trim of d frames is CHANGED with head_change
\* "trimmed", head_from/head_to the old and new source_in, and
\* time_diff_frames = 0, the record duration being unchanged; the rendered
\* description begins "No time difference. Shifted within itself.  HEAD
\* trimmed from <old source_in> to <new source_in>.".
C3_PureTrim ==
    Compared =>
      \A k \in 1..Len(changes) : PureHeadTrimAt(k) =>
        /\ changes[k].type = "CHANGED"
        /\ changes[k].details.head_change = "trimmed"
        /\ changes[k].details.time_diff_frames = 0
        /\ "tail_change" \notin DOMAIN changes[k].details
        /\ pc = "done" =>
              /\ LineOf(k).label = "Changed"
              /\ StartsWith(LineOf(k).description,
                            TxtNoTimeDifference \o TxtHead \o TxtTrimmed \o TxtFrom
                              \o old_edits[k].source_in \o TxtTo
                              \o new_edits[k].source_in \o <<".">>)

\* the example, rendered, after an index that wrote a line of its own
C3_Witness ==
    /\ pc = "done"
    /\ old_edits = <<EditTailTrim, EditBase>>
    /\ new_edits = <<EditOtherReel, EditHeadTrim>>
    /\ PureHeadTrimAt(2) /\ IsTrimExample(2) /\ HeadTrimFrames(2) = 48
    /\ Len(output_file.content) = 2
    /\ changes[2].details.time_diff_frames = 0

HeadKeys == {"head_change", "head_from", "head_to"}
TailKeys == {"tail_change", "tail_from", "tail_to"}
AlwaysKeys == {"time_diff_frames", "old_length_frames", "new_length_frames",
               "old_source_in", "new_source_in", "old_source_out", "new_source_out"}

\* C9: for a CHANGED record the head fields are present iff head_diff # 0,
\* "extended" iff head_diff < 0 and "trimmed" iff head_diff > 0; the tail
\* fields are present iff tail_diff # 0, "extended" iff tail_diff > 0 and
\* "trimmed" iff tail_diff < 0; from/to are the old/new timecode strings; the
\* lengths, time_diff_frames = new_length - old_length and the four source
\* timecodes are always present.
C9_TrimDetails ==
    Compared =>
      \A k \in 1..Len(changes) : changes[k].type = "CHANGED" =>
        LET d == changes[k].details
            o == old_edits[k]
            n == new_edits[k]
            head_diff == tc_to_frames(n.source_in, FPS) - tc_to_frames(o.source_in, FPS)
            tail_diff == tc_to_frames(n.source_out, FPS) - tc_to_frames(o.source_out, FPS)
        IN  /\ DOMAIN d = AlwaysKeys
                            \cup (IF head_diff # 0 THEN HeadKeys ELSE {})
                            \cup (IF tail_diff # 0 THEN TailKeys ELSE {})
            /\ head_diff < 0 => d.head_change = "extended"
            /\ head_diff > 0 => d.head_change = "trimmed"
            /\ head_diff # 0 => d.head_from = o.source_in /\ d.head_to = n.source_in
            /\ tail_diff > 0 => d.tail_change = "extended"
            /\ tail_diff < 0 => d.tail_change = "trimmed"
            /\ tail_diff # 0 => d.tail_from = o.source_out /\ d.tail_to = n.source_out
            /\ d.time_diff_frames = d.new_length_frames - d.old_length_frames
            /\ d.old_length_frames
                 = tc_to_frames(o.record_out, FPS) - tc_to_frames(o.record_in, FPS)
            /\ d.new_length_frames
                 = tc_to_frames(n.record_out, FPS) - tc_to_frames(n.record_in, FPS)
            /\ d.old_source_in = o.source_in /\ d.new_source_in = n.source_in
            /\ d.old_source_out = o.source_out /\ d.new_source_out = n.source_out

\* head extended and tail trimmed at once, and a record with neither
C9_Witness ==
    /\ Compared
    /\ old_edits = <<EditHeadTrim, EditBase>>
    /\ new_edits = <<EditTailTrim, EditSixtySeconds>>
    /\ changes[1].details.head_change = "extended"
    /\ changes[1].details.tail_change = "trimmed"
    /\ changes[1].details.time_diff_frames = 0 - 48
    /\ changes[2].type = "CHANGED"
    /\ DOMAIN changes[2].details = AlwaysKeys

\* four zero-padded two-digit fields, minutes and seconds < 60, frames < fps
Canonical(t) ==
    /\ TwoDigitFields(t)
    /\ MinSecBelow60(t)
    /\ FrameBelowFps(t, FPS)

AllCanonical ==
    \A e \in RangeOf(old_edits) \cup RangeOf(new_edits) :
        Canonical(e.source_in) /\ Canonical(e.source_out)

\* s occurs in t
Contains(t, s) ==
    \E p \in 1..(Len(t) - Len(s) + 1) : SubSeq(t, p, p + Len(s) - 1) = s

\* C10: when every source timecode of both lists is canonical, each CHANGED
\* record carries head_change or tail_change, and each rendered Changed line
\* has a HEAD or a TAIL clause.
C10_CanonicalChange ==
    (Compared /\ AllCanonical) =>
      /\ \A k \in 1..Len(changes) : changes[k].type = "CHANGED" =>
            \/ "head_change" \in DOMAIN changes[k].details
            \/ "tail_change" \in DOMAIN changes[k].details
      /\ pc = "done" =>
            \A k \in 1..Len(output_file.content) :
                output_file.content[k].label = "Changed" =>
                    \/ Contains(output_file.content[k].description, TxtHead)
                    \/ Contains(output_file.content[k].description, TxtTail)

\* canonical lists whose source_in differ by one frame, rendered
C10_Witness ==
    /\ pc = "done"
    /\ AllCanonical
    /\ old_edits = <<EditBase>>
    /\ new_edits = <<EditHeadFrame>>
    /\ changes[1].type = "CHANGED"
    /\ output_file.content[1].label = "Changed"
    /\ Contains(output_file.content[1].description, TxtHead)

(***************************************************************************)
(* output_change_list applied to bounded sequences of change records       *)
(***************************************************************************)
MaxChanges == 2

Optional(S) == {Absent} \cup {Present(e) : e \in S}

\* the records compare_edls builds from a few edits, and a NEW record that
\* carries only an old edit, which compare_edls never builds
RecordPool ==
    {compare_record(pair[1], pair[2], FPS) :
        pair \in (Optional({EditBase, EditHeadTrim})
                    \X Optional({EditBase, EditTailTrim, EditOtherReel, EditMoved}))
                 \ {<<Absent, Absent>>}}
    \cup {ChangeRecord("NEW", Present(EditMoved), Absent, [description |-> TxtClipAdded])}

InitRender ==
    /\ pc = "render"
    /\ changes \in SeqsUpTo(RecordPool, MaxChanges)
    /\ old_edits = <<>>
    /\ new_edits = <<>>
    /\ output_file = OutputUntouched
    /\ CodecIdle /\ ParserIdle /\ MainIdle

NextRender == WriteChangeList

SpecRender == InitRender /\ [][NextRender]_vars

CountOf(type) == Cardinality({k \in 1..Len(changes) : changes[k].type = type})

\* C4: output_change_list writes one line per NEW or CHANGED record, in the
\* order of the records, and none for UNCHANGED or DELETED; each line holds
\* the record_in of the new edit when present, else of the old edit,
\* New/magenta or Changed/yellow, and the last field 1.
C4_OutputLines ==
    pc = "done" =>
      LET reported == SelectSeq(changes, IsReported)
          content  == output_file.content
      IN  /\ Len(content) = Len(reported)
          /\ Len(content) = CountOf("NEW") + CountOf("CHANGED")
          /\ \A k \in 1..Len(reported) :
               /\ content[k].record_tc =
                     IF reported[k].new # Absent
                     THEN reported[k].new[1].record_in
                     ELSE reported[k].old[1].record_in
               /\ content[k].label =
                     IF reported[k].type = "NEW" THEN "New" ELSE "Changed"
               /\ content[k].colour =
                     IF reported[k].type = "NEW" THEN "magenta" ELSE "yellow"
               /\ content[k].last = "1"
               /\ content[k].tc = "TC"

\* a deletion between a reel swap moved on the timeline and a change
C4_Witness ==
    /\ pc = "done"
    /\ Len(changes) = 2
    /\ changes[1].type = "DELETED"
    /\ changes[2].type = "NEW" /\ changes[2].old = <<EditBase>>
    /\ changes[2].new = <<EditOtherReel>>
    /\ Len(output_file.content) = 1
    /\ output_file.content[1].label = "New"

(***************************************************************************)
(* __main__                                                                *)
(***************************************************************************)
MaxFileLines == 2

\* the event line of an edit: EVENT REEL V C SRC_IN SRC_OUT REC_IN REC_OUT
EventLineOf(e) ==
    W(<<e.event_num, e.reel, <<"V">>, <<"C">>, e.source_in, e.source_out,
        e.record_in, e.record_out>>) \o <<"\n">>

FileLinePool == {EventLineOf(EditBase), EventLineOf(EditHeadTrim),
                 EventLineOf(EditBadTimecode), LineClipName}

\* a file that exists, not opened yet
File(ls) == [exists |-> TRUE, lines |-> ls, state |-> "unopened"]
MissingFile == [exists |-> FALSE, lines |-> <<>>, state |-> "unopened"]

Files == {MissingFile} \cup {File(ls) : ls \in SeqsUpTo(FileLinePool, MaxFileLines)}

\* the numbers of command-line arguments tried
ArgCounts == {2, 3, 4}

\* the usage test passing for any argument count of three or more
ArgsAcceptedAtLeast(n) == n + 1 >= 4

\* line 248: len(sys.argv) != 4 exits with the usage message
ArgsAccepted(n) == n + 1 = 4

Init ==
    /\ pc = "start"
    /\ argc \in ArgCounts
    /\ old_file \in Files
    /\ new_file \in Files
    /\ old_edits = <<>>
    /\ new_edits = <<>>
    /\ changes = <<>>
    /\ output_file = OutputUntouched
    /\ CodecIdle /\ ParserIdle

\* the argument count is wrong: usage message, sys.exit(1)
UsageExit ==
    /\ pc = "start"
    /\ ~ArgsAccepted(argc)
    /\ pc' = "aborted"
    /\ UNCHANGED <<mainVars, compareVars, codecVars, parserVars, output_file>>

ArgsOk ==
    /\ pc = "start"
    /\ ArgsAccepted(argc)
    /\ pc' = "parse_old"
    /\ UNCHANGED <<mainVars, compareVars, codecVars, parserVars, output_file>>

\* old_edits = parser.parse(old_file): opened, read and closed
ParseOld ==
    /\ pc = "parse_old"
    /\ old_file.exists
    /\ old_edits' = parse(old_file.lines)
    /\ old_file' = [old_file EXCEPT !.state = "closed"]
    /\ pc' = "parse_new"
    /\ UNCHANGED <<argc, new_file, new_edits, changes, codecVars, parserVars, output_file>>

\* open(old_file) raises: the run ends
ParseOldFail ==
    /\ pc = "parse_old"
    /\ ~old_file.exists
    /\ pc' = "aborted"
    /\ UNCHANGED <<mainVars, compareVars, codecVars, parserVars, output_file>>

\* new_edits = parser.parse(new_file)
ParseNew ==
    /\ pc = "parse_new"
    /\ new_file.exists
    /\ new_edits' = parse(new_file.lines)
    /\ new_file' = [new_file EXCEPT !.state = "closed"]
    /\ pc' = "compare"
    /\ UNCHANGED <<argc, old_file, old_edits, changes, codecVars, parserVars, output_file>>

\* open(new_file) raises: the run ends
ParseNewFail ==
    /\ pc = "parse_new"
    /\ ~new_file.exists
    /\ pc' = "aborted"
    /\ UNCHANGED <<mainVars, compareVars, codecVars, parserVars, output_file>>

Next ==
    \/ UsageExit
    \/ ArgsOk
    \/ ParseOld
    \/ ParseOldFail
    \/ ParseNew
    \/ ParseNewFail
    \/ Compare
    \/ CompareRaise
    \/ WriteChangeList

Spec == Init /\ [][Next]_vars

\* the run cannot reach the output: wrong argument count, an input file
\* missing, or a timecode that fails to parse during the comparison
MustAbort ==
    \/ argc # 3
    \/ ~old_file.exists
    \/ ~new_file.exists
    \/ CompareRaises(parse(old_file.lines), parse(new_file.lines))

\* C6: the output file is opened only after the old file, then the new file,
\* have been read and closed and compare_edls has completed; with an input
\* file missing, a timecode that fails to parse or an argument count other
\* than three, the output file is never opened and keeps its content.
C6_AbortBeforeOutput ==
    /\ output_file.opened =>
          /\ old_file.state = "closed" /\ new_file.state = "closed"
          /\ old_edits = parse(old_file.lines)
          /\ new_edits = parse(new_file.lines)
          /\ changes = compare_edls(old_edits, new_edits, FPS)
          /\ pc = "done"
    /\ new_file.state = "closed" => old_file.state = "closed"
    /\ pc \in {"compare", "render", "done"} => new_file.state = "closed"
    /\ MustAbort => output_file = OutputUntouched
    /\ pc = "aborted" => (MustAbort /\ output_file = OutputUntouched)
    /\ pc = "done" => (~MustAbort /\ output_file.opened)

\* both files read, then a timecode of the new one fails in the comparison
C6_Witness ==
    /\ pc = "aborted"
    /\ argc = 3
    /\ old_file.state = "closed" /\ new_file.state = "closed"
    /\ Len(old_edits) = 1 /\ old_edits[1].source_in = Tc(1, 0, 0, 0)
    /\ Len(new_edits) = 1 /\ TcRaises(new_edits[1].source_in)
    /\ output_file = OutputUntouched

====
